---- MODULE Spec2Model ----
(***************************************************************************)
(* Model of backend/jobs/scheduler.py: the JobScheduler's six reminder     *)
(* jobs, the record store they query and update, and the email / WhatsApp  *)
(* senders they call.  Time is counted in minutes.  Every call a job makes *)
(* to the record store or to a sender is one step, so that executions of   *)
(* different jobs (and manual invocations) interleave between calls.       *)
(***************************************************************************)
EXTENDS Integers, Sequences, FiniteSets, TLC

VARIABLES
    now,      \* datetime.utcnow(), in minutes
    rows,     \* the record store's rows (everything but the flag columns)
    flags,    \* the idempotency flag columns of every row
    runs,     \* the executions of job handlers, one per slot
    sched,    \* the JobScheduler object: its BackgroundScheduler and job store
    proc,     \* the process: the module global _scheduler_instance and its callers
    zoom,     \* the MockZoomService object
    audit,    \* what the firings of one job did so far (history)
    cta       \* the CTA submissions, the accounts made from them, the last result

vars == <<now, rows, flags, runs, sched, proc, zoom, audit, cta>>

(***************************************************************************)
(* Bounds of the model.                                                    *)
(***************************************************************************)
MaxRecords == 2     \* rows in the record store
MaxEnroll  == 2     \* enrollments joined to one session
MaxRuns    == 2     \* handler executions in progress at once
MaxTicks   == 1     \* clock advances in one behaviour

RecIds == 1 .. MaxRecords
Slots  == DOMAIN runs

(***************************************************************************)
(* Time.  timedelta(...) values of the window queries, in minutes.          *)
(***************************************************************************)
Hour == 60
Day  == 24 * Hour
TickStep == 5       \* minutes the clock advances in one step

(***************************************************************************)
(* The six jobs, their tables and their flag columns.                      *)
(***************************************************************************)
Jobs == {"session_reminders_24h", "session_reminders_15min",
         "recording_notifications", "assignment_reminders",
         "payment_reminders", "lead_follow_ups"}

Tables == {"sessions", "recordings", "assignments", "payments", "imported_leads"}

FlagCols == {"reminder_24h_sent", "reminder_15min_sent", "notification_sent",
             "reminder_sent", "follow_up_sent"}

\* supabase.table(...) of each handler's query and update
TableOf(j) ==
    CASE j = "session_reminders_24h"   -> "sessions"
      [] j = "session_reminders_15min" -> "sessions"
      [] j = "recording_notifications" -> "recordings"
      [] j = "assignment_reminders"    -> "assignments"
      [] j = "payment_reminders"       -> "payments"
      [] j = "lead_follow_ups"         -> "imported_leads"

\* session handlers that share one flag column
FieldOfSessions(j) ==
    CASE j = "session_reminders_24h"   -> "reminder_24h_sent"
      [] j = "session_reminders_15min" -> "reminder_24h_sent"
      [] j = "recording_notifications" -> "notification_sent"
      [] j = "assignment_reminders"    -> "reminder_sent"
      [] j = "payment_reminders"       -> "reminder_sent"
      [] j = "lead_follow_ups"         -> "follow_up_sent"

\* the column each handler filters on (.eq(col, False)) and sets to True
FieldOf(j) ==
    CASE j = "session_reminders_24h"   -> "reminder_24h_sent"
      [] j = "session_reminders_15min" -> "reminder_15min_sent"
      [] j = "recording_notifications" -> "notification_sent"
      [] j = "assignment_reminders"    -> "reminder_sent"
      [] j = "payment_reminders"       -> "reminder_sent"
      [] j = "lead_follow_ups"         -> "follow_up_sent"

\* every handler calling whatsapp_service.send_message
UsesWhatsAppAlways(j) == j \in Jobs

\* the handlers that also call whatsapp_service.send_message
UsesWhatsApp(j) ==
    j \in {"session_reminders_24h", "session_reminders_15min", "payment_reminders"}

(***************************************************************************)
(* Rows.  A joined profile is either null or carries an optional email and *)
(* an optional phone.  `people' is the joined recipient list: a session's  *)
(* enrollments (each with its profile), a recording's session's            *)
(* enrollments, the one profile of an assignment or payment, the lead's    *)
(* own contact columns.  `session_null' says that a recording's joined     *)
(* session is null.                                                        *)
(***************************************************************************)
NullProfile == [isnull |-> TRUE, email |-> FALSE, phone |-> FALSE]
Profiles == {[isnull |-> FALSE, email |-> e, phone |-> p] : e, p \in BOOLEAN}
JoinedProfiles == Profiles \cup {NullProfile}

PeopleLists == UNION {[1 .. n -> JoinedProfiles] : n \in 0 .. MaxEnroll}

Row(t, at, st, vis, sub, snull, ppl) ==
    [table |-> t, at |-> at, status |-> st, visible_to_students |-> vis,
     submitted |-> sub, session_null |-> snull, people |-> ppl]

Both == [isnull |-> FALSE, email |-> TRUE, phone |-> TRUE]

(***************************************************************************)
(* The stores the model starts from.  Two families of rows per table:      *)
(*   - PeopleRows(t): rows that the table's query returns at time 0, with  *)
(*     every joined recipient list up to MaxEnroll (null profiles, missing *)
(*     contacts, no enrollment, a null joined session);                    *)
(*   - WindowRows(t): rows with one well-formed recipient whose subject    *)
(*     time or filter columns put them on either side of the query's       *)
(*     window at time 0 and one clock step later.                          *)
(***************************************************************************)
SessionTimes    == {10, 20 + 1, 23 * Hour, 25 * Hour + 1}
AssignmentTimes == {24 * Hour, 48 * Hour + 1}
CreatedTimes    == {0 - 3 * Day, 1 - 3 * Day}

PeopleRows(t) ==
    CASE t = "sessions" ->
            {Row(t, at, "n/a", FALSE, FALSE, FALSE, ppl) :
                at \in {10, 23 * Hour}, ppl \in PeopleLists}
      [] t = "recordings" ->
            {Row(t, 0, "n/a", TRUE, FALSE, FALSE, ppl) : ppl \in PeopleLists}
            \cup {Row(t, 0, "n/a", TRUE, FALSE, TRUE, <<>>)}
      [] t = "assignments" ->
            {Row(t, 24 * Hour, "n/a", FALSE, FALSE, FALSE, <<p>>) : p \in JoinedProfiles}
      [] t = "payments" ->
            {Row(t, 0 - 3 * Day, "pending", FALSE, FALSE, FALSE, <<p>>) :
                p \in JoinedProfiles}
      [] t = "imported_leads" ->
            {Row(t, 0 - 3 * Day, "new", FALSE, FALSE, FALSE, <<p>>) : p \in Profiles}

WindowRows(t) ==
    CASE t = "sessions" ->
            {Row(t, at, "n/a", FALSE, FALSE, FALSE, <<Both>>) : at \in SessionTimes}
      [] t = "recordings" ->
            {Row(t, 0, "n/a", vis, FALSE, FALSE, <<Both>>) : vis \in BOOLEAN}
      [] t = "assignments" ->
            {Row(t, at, "n/a", FALSE, sub, FALSE, <<Both>>) :
                at \in AssignmentTimes, sub \in BOOLEAN}
      [] t = "payments" ->
            {Row(t, at, st, FALSE, FALSE, FALSE, <<Both>>) :
                at \in CreatedTimes, st \in {"pending", "paid"}}
      [] t = "imported_leads" ->
            {Row(t, at, st, FALSE, FALSE, FALSE, <<Both>>) :
                at \in CreatedTimes, st \in {"new", "contacted"}}

\* a well-formed row of the same batch as row rw: same table, same subject
\* time and filter columns, one recipient with an email and a phone
Companion(rw) == [rw EXCEPT !.session_null = FALSE, !.people = <<Both>>]

(***************************************************************************)
(* The window queries of the six handlers: whether row rw, whose flag      *)
(* columns are fl, is returned by the handler's query issued at time t.    *)
(***************************************************************************)
check_session_reminders_24h(rw, fl, t) ==
    /\ rw.table = "sessions"
    /\ rw.at >= t + 23 * Hour
    /\ rw.at <= t + 25 * Hour
    /\ fl["reminder_24h_sent"] = FALSE

check_session_reminders_15min(rw, fl, t) ==
    /\ rw.table = "sessions"
    /\ rw.at >= t + 10
    /\ rw.at <= t + 20
    /\ fl["reminder_15min_sent"] = FALSE

check_recording_availability(rw, fl, t) ==
    /\ rw.table = "recordings"
    /\ rw.visible_to_students = TRUE
    /\ fl["notification_sent"] = FALSE

\* the assignment query without its upper bound .lte('deadline', end_window)
check_assignment_deadlines_open(rw, fl, t) ==
    /\ rw.table = "assignments"
    /\ rw.at >= t + 24 * Hour
    /\ fl["reminder_sent"] = FALSE
    /\ rw.submitted = FALSE

check_assignment_deadlines(rw, fl, t) ==
    /\ rw.table = "assignments"
    /\ rw.at >= t + 24 * Hour
    /\ rw.at <= t + 48 * Hour
    /\ fl["reminder_sent"] = FALSE
    /\ rw.submitted = FALSE

\* the payment query without its filter .eq('reminder_sent', False)
check_pending_payments_unfiltered(rw, fl, t) ==
    /\ rw.table = "payments"
    /\ rw.status = "pending"
    /\ rw.at <= t - 3 * Day

check_pending_payments(rw, fl, t) ==
    /\ rw.table = "payments"
    /\ rw.status = "pending"
    /\ rw.at <= t - 3 * Day
    /\ fl["reminder_sent"] = FALSE

\* the lead query without its cutoff .lte('created_at', cutoff_date)
check_lead_follow_ups_no_cutoff(rw, fl, t) ==
    /\ rw.table = "imported_leads"
    /\ rw.status = "new"
    /\ fl["follow_up_sent"] = FALSE

check_lead_follow_ups(rw, fl, t) ==
    /\ rw.table = "imported_leads"
    /\ rw.status = "new"
    /\ rw.at <= t - 3 * Day
    /\ fl["follow_up_sent"] = FALSE

Matches(j, rw, fl, t) ==
    CASE j = "session_reminders_24h"   -> check_session_reminders_24h(rw, fl, t)
      [] j = "session_reminders_15min" -> check_session_reminders_15min(rw, fl, t)
      [] j = "recording_notifications" -> check_recording_availability(rw, fl, t)
      [] j = "assignment_reminders"    -> check_assignment_deadlines(rw, fl, t)
      [] j = "payment_reminders"       -> check_pending_payments(rw, fl, t)
      [] j = "lead_follow_ups"         -> check_lead_follow_ups(rw, fl, t)

\* response.data of the handler's query: the ids of the rows it returns
QueryResult(j) == {r \in RecIds : Matches(j, rows[r], flags[r], now)}

(***************************************************************************)
(* The per-row functions (_send_session_reminder, ...).  NextCall gives    *)
(* what the row function does next when it stands before channel ch of     *)
(* recipient ei: it calls a sender ("send"), it raises on a null joined    *)
(* object ("raise"), or it has left the loop and updates the flag          *)
(* ("update").  Recipients without the channel's contact are passed over.  *)
(***************************************************************************)
RECURSIVE NextCall(_, _, _, _)
NextCall(j, rw, ei, ch) ==
    IF rw.session_null THEN [k |-> "raise", ei |-> 0, ch |-> "none"]
    ELSE IF ei > Len(rw.people) THEN [k |-> "update", ei |-> 0, ch |-> "none"]
    ELSE IF rw.people[ei].isnull THEN [k |-> "raise", ei |-> ei, ch |-> "none"]
    ELSE IF ch = "email"
         THEN IF rw.people[ei].email
              THEN [k |-> "send", ei |-> ei, ch |-> "email"]
              ELSE NextCall(j, rw, ei, "whatsapp")
    ELSE IF UsesWhatsApp(j) /\ rw.people[ei].phone
         THEN [k |-> "send", ei |-> ei, ch |-> "whatsapp"]
         ELSE NextCall(j, rw, ei + 1, "email")

\* where the row function stands after the send on channel ch of recipient ei
AfterSend(ei, ch) ==
    IF ch = "email" THEN [ei |-> ei, ch |-> "whatsapp"]
                    ELSE [ei |-> ei + 1, ch |-> "email"]

\* an update that also clears the column on the other rows
SetFlagOnlyLatest(fl, r, field) ==
    [x \in DOMAIN fl |-> [fl[x] EXCEPT ![field] = (x = r)]]

\* an update that is left out for a row without recipients
SetFlagIfRecipients(fl, r, field) ==
    IF Len(rows[r].people) = 0 THEN fl ELSE [fl EXCEPT ![r][field] = TRUE]

\* an update that writes the whole row back with only this flag set
SetFlagWholeRow(fl, r, field) ==
    [fl EXCEPT ![r] = [c \in FlagCols |-> c = field]]

\* supabase.table(t).update({field: True}).eq('id', r).execute()
SetFlag(fl, r, field) == [fl EXCEPT ![r][field] = TRUE]

\* what a sender call can do: return success, return failure, raise
SendOutcomes == {"ok", "fail", "raise"}
\* what a record-store call can do
StoreOutcomes == {"ok", "raise"}

\* `except Exception' around each per-row function body
RowBoundary == "caught"
\* a handler body without its `except Exception'
JobBoundaryMissing == "propagate"

\* `except Exception' around each handler body
JobBoundary == "caught"

\* job_defaults['max_instances'] of the BackgroundScheduler
max_instances == 1

(***************************************************************************)
(* Executions of handlers.  A slot holds one execution: a firing started   *)
(* by the BackgroundScheduler's trigger (origin "trigger") or a direct     *)
(* call of the handler, as the command-line entry does (origin "manual").  *)
(* Besides the handler's position (pc, todo, cur, ei, ch) an execution     *)
(* records what it did: the time and result of its query, the rows whose   *)
(* flag the query saw set, the sender calls it made, the rows it updated,  *)
(* the errors it logged.                                                   *)
(***************************************************************************)
Channels == {"email", "whatsapp"}
SendKeys == RecIds \X (1 .. MaxEnroll) \X Channels

Idle ==
    [pc |-> "idle", job |-> "none", origin |-> "none", qnow |-> 0,
     sel |-> {}, seen |-> {}, todo |-> {}, cur |-> 0, ei |-> 0, ch |-> "none",
     sends |-> [k \in SendKeys |-> 0], okRows |-> {}, failRows |-> {},
     raisedRows |-> {}, rowErrors |-> {}, updated |-> {}, updateFailed |-> {},
     jobError |-> FALSE, refused |-> FALSE, afterError |-> FALSE]

Active(i) == runs[i].pc \in {"query", "rows", "row"}

\* the execution of slot i logged an error or let an exception escape
Failed(i) ==
    \/ runs[i].jobError
    \/ runs[i].rowErrors # {}
    \/ runs[i].pc = "escaped"

\* the scheduler's running instances of job j (executor bookkeeping)
Instances(j) == {i \in Slots : Active(i) /\ runs[i].job = j /\ runs[i].origin = "trigger"}

\* an executor that lets one instance more than max_instances run
CanSubmitOneMore(j) == Cardinality(Instances(j)) < max_instances + 1

\* BaseExecutor.submit_job: a fire is run unless max_instances are running
CanSubmit(j) == Cardinality(Instances(j)) < max_instances

\* a slot is free when it holds no execution or one that has ended
FreeSlots == {i \in Slots : ~Active(i)}

StartRun(j, origin) ==
    /\ FreeSlots # {}
    /\ LET i == CHOOSE k \in FreeSlots : \A m \in FreeSlots : k <= m
       IN runs' = [runs EXCEPT ![i] =
                      [Idle EXCEPT !.pc = "query", !.job = j, !.origin = origin,
                                   !.afterError = Failed(i)]]
    /\ UNCHANGED <<now, rows, flags>>

\* The trigger of job j fires and the scheduler submits the handler.
Fire(j) ==
    /\ CanSubmit(j)
    /\ StartRun(j, "trigger")
    /\ UNCHANGED <<sched, proc, zoom, audit, cta>>

\* The trigger of job j fires while max_instances of it are running: the
\* executor refuses the submission and the fire is skipped.
SkipFire(j) ==
    /\ ~CanSubmit(j)
    /\ \E i \in Instances(j) :
          /\ ~runs[i].refused
          /\ runs' = [runs EXCEPT ![i].refused = TRUE]
    /\ UNCHANGED <<now, rows, flags>>
    /\ UNCHANGED <<sched, proc, zoom, audit, cta>>

\* The handler of job j is called directly (__main__, tests).
Manual(j) ==
    /\ StartRun(j, "manual")
    /\ UNCHANGED <<sched, proc, zoom, audit, cta>>

\* An exception raised in the handler body outside the per-row functions.
RaiseInJob(r) ==
    IF JobBoundary = "caught"
    THEN [r EXCEPT !.pc = "done", !.jobError = TRUE, !.cur = 0]
    ELSE [r EXCEPT !.pc = "escaped", !.cur = 0]

\* An exception raised inside the per-row function of row r.cur.
RaiseInRow(r) ==
    IF RowBoundary = "caught"
    THEN [r EXCEPT !.pc = "rows", !.rowErrors = @ \cup {r.cur}, !.cur = 0]
    ELSE RaiseInJob(r)

\* a handler that logs the failure of its query and goes on to the rows
QueryIgnoresFailure(i) ==
    /\ runs[i].pc = "query"
    /\ LET r == runs[i]
       IN \E out \in StoreOutcomes :
             runs' = [runs EXCEPT ![i] =
                 [r EXCEPT !.pc = "rows", !.qnow = now, !.jobError = (out = "raise"),
                           !.sel = QueryResult(r.job), !.todo = QueryResult(r.job),
                           !.seen = {x \in RecIds :
                                        /\ rows[x].table = TableOf(r.job)
                                        /\ flags[x][FieldOf(r.job)]}]]
    /\ UNCHANGED <<now, rows, flags>>
    /\ UNCHANGED <<sched, proc, zoom, audit, cta>>

\* a query that leaves out the rows an earlier execution logged an error for
QuerySkipsAttempted(i) ==
    /\ runs[i].pc = "query"
    /\ LET r == runs[i]
           attempted == UNION {runs[k].rowErrors : k \in Slots \ {i}}
       IN \E out \in StoreOutcomes :
             runs' = [runs EXCEPT ![i] =
                 IF out = "ok"
                 THEN [r EXCEPT !.pc = "rows", !.qnow = now,
                                !.sel = QueryResult(r.job) \ attempted,
                                !.todo = QueryResult(r.job) \ attempted,
                                !.seen = {x \in RecIds :
                                             /\ rows[x].table = TableOf(r.job)
                                             /\ flags[x][FieldOf(r.job)]}]
                 ELSE RaiseInJob([r EXCEPT !.qnow = now])]
    /\ UNCHANGED <<now, rows, flags>>
    /\ UNCHANGED <<sched, proc, zoom, audit, cta>>

\* response = supabase.table(...).select(...)...execute()
Query(i) ==
    /\ runs[i].pc = "query"
    /\ LET r == runs[i]
       IN \E out \in StoreOutcomes :
             runs' = [runs EXCEPT ![i] =
                 IF out = "ok"
                 THEN [r EXCEPT !.pc = "rows", !.qnow = now,
                                !.sel = QueryResult(r.job), !.todo = QueryResult(r.job),
                                !.seen = {x \in RecIds :
                                             /\ rows[x].table = TableOf(r.job)
                                             /\ flags[x][FieldOf(r.job)]}]
                 ELSE RaiseInJob([r EXCEPT !.qnow = now])]
    /\ UNCHANGED <<now, rows, flags>>
    /\ UNCHANGED <<sched, proc, zoom, audit, cta>>

\* for row in rows: the loop takes the next row and enters its function
BeginRow(i) ==
    /\ runs[i].pc = "rows"
    /\ \E r \in runs[i].todo :
          runs' = [runs EXCEPT ![i] =
              [runs[i] EXCEPT !.pc = "row", !.cur = r, !.todo = @ \ {r},
                              !.ei = 1, !.ch = "email"]]
    /\ UNCHANGED <<now, rows, flags>>
    /\ UNCHANGED <<sched, proc, zoom, audit, cta>>

Standing(i) == NextCall(runs[i].job, rows[runs[i].cur], runs[i].ei, runs[i].ch)

\* email_service.send_email(...) / whatsapp_service.send_message(...)
Send(i) ==
    /\ runs[i].pc = "row"
    /\ Standing(i).k = "send"
    /\ LET c   == Standing(i)
           key == <<runs[i].cur, c.ei, c.ch>>
           nxt == AfterSend(c.ei, c.ch)
       IN \E out \in SendOutcomes :
             runs' = [runs EXCEPT ![i] =
                 LET called == [runs[i] EXCEPT !.sends[key] = @ + 1]
                 IN CASE out = "ok" ->
                            [called EXCEPT !.okRows = @ \cup {key[1]},
                                           !.ei = nxt.ei, !.ch = nxt.ch]
                      [] out = "fail" ->
                            [called EXCEPT !.failRows = @ \cup {key[1]},
                                           !.ei = nxt.ei, !.ch = nxt.ch]
                      [] out = "raise" ->
                            RaiseInRow([called EXCEPT !.raisedRows = @ \cup {key[1]}])]
    /\ UNCHANGED <<now, rows, flags>>
    /\ UNCHANGED <<sched, proc, zoom, audit, cta>>

\* profile.get(...) / session.get(...) on a joined object that is null
NullJoin(i) ==
    /\ runs[i].pc = "row"
    /\ Standing(i).k = "raise"
    /\ runs' = [runs EXCEPT ![i] = RaiseInRow(runs[i])]
    /\ UNCHANGED <<now, rows, flags>>
    /\ UNCHANGED <<sched, proc, zoom, audit, cta>>

\* a row function that sets the flag first and then makes its sends
UpdateBeforeSends(i) ==
    /\ runs[i].pc = "row"
    /\ runs[i].cur \notin runs[i].updated
    /\ flags' = SetFlag(flags, runs[i].cur, FieldOf(runs[i].job))
    /\ runs' = [runs EXCEPT ![i].updated = @ \cup {runs[i].cur}]
    /\ UNCHANGED <<now, rows>>
    /\ UNCHANGED <<sched, proc, zoom, audit, cta>>

\* supabase.table(...).update({field: True}).eq('id', row['id']).execute()
Update(i) ==
    /\ runs[i].pc = "row"
    /\ Standing(i).k = "update"
    /\ \E out \in StoreOutcomes :
          IF out = "ok"
          THEN /\ flags' = SetFlag(flags, runs[i].cur, FieldOf(runs[i].job))
               /\ runs' = [runs EXCEPT ![i] =
                              [runs[i] EXCEPT !.pc = "rows",
                                              !.updated = @ \cup {runs[i].cur},
                                              !.cur = 0]]
          ELSE /\ flags' = flags
               /\ runs' = [runs EXCEPT ![i] =
                              RaiseInRow([runs[i] EXCEPT
                                             !.updateFailed = @ \cup {runs[i].cur}])]
    /\ UNCHANGED <<now, rows>>
    /\ UNCHANGED <<sched, proc, zoom, audit, cta>>

\* the loop is over: the handler logs its summary and returns
Return(i) ==
    /\ runs[i].pc = "rows"
    /\ runs[i].todo = {}
    /\ runs' = [runs EXCEPT ![i].pc = "done"]
    /\ UNCHANGED <<now, rows, flags>>
    /\ UNCHANGED <<sched, proc, zoom, audit, cta>>

\* time passes
Tick ==
    /\ now < MaxTicks * TickStep
    /\ now' = now + TickStep
    /\ UNCHANGED <<rows, flags, runs>>
    /\ UNCHANGED <<sched, proc, zoom, audit, cta>>

(***************************************************************************)
(* The JobScheduler object and its BackgroundScheduler.  The triggers of   *)
(* register_all_jobs give every job a grid of fire times: an interval      *)
(* trigger fires every Period minutes counted from its registration, a     *)
(* cron trigger at fixed times of the day.  The scheduler thread wakes up  *)
(* (possibly late), hands the due run times of a job to the executor and   *)
(* moves the job's next_run_time on; a worker thread takes the run times   *)
(* and calls the handler.                                                  *)
(***************************************************************************)
MaxClockTicks == 3      \* clock advances in one behaviour of the trigger model
MaxCalls == 2           \* direct calls of start() / shutdown() in one behaviour

\* wall-clock time of day (minutes, UTC) at which the model's clock reads 0
BootClock == 9 * Hour - 5

\* IntervalTrigger(minutes=...) / CronTrigger(...) of register_all_jobs
Period(j) ==
    CASE j = "session_reminders_24h"   -> 10
      [] j = "session_reminders_15min" -> 5
      [] j = "recording_notifications" -> 30
      [] j = "assignment_reminders"    -> 6 * Hour
      [] j = "payment_reminders"       -> Day
      [] j = "lead_follow_ups"         -> Day

IsInterval(j) ==
    j \in {"session_reminders_24h", "session_reminders_15min", "recording_notifications"}

\* the time of day a cron trigger fires at (hour='*/6'; hour=10; hour=9)
CronOffset(j) ==
    CASE j = "assignment_reminders" -> 0
      [] j = "payment_reminders"    -> 10 * Hour
      [] j = "lead_follow_ups"      -> 9 * Hour
      [] OTHER                      -> 0

\* trigger.get_next_fire_time(None, t): the first fire time at or after t of
\* a job registered at time reg
FirstFire(j, reg, t) ==
    IF IsInterval(j)
    THEN IF t <= reg + Period(j)
         THEN reg + Period(j)
         ELSE t + ((reg - t) % Period(j))
    ELSE t + ((CronOffset(j) - BootClock - t) % Period(j))

\* trigger.get_next_fire_time(previous, now) after a run time was processed
FireAfter(j, previous) == previous + Period(j)

\* job._get_run_times(now): the fire times from next_run_time up to t
RECURSIVE RunTimes(_, _, _)
RunTimes(j, from, t) ==
    IF from > t THEN <<>> ELSE <<from>> \o RunTimes(j, FireAfter(j, from), t)

\* job_defaults of the BackgroundScheduler
coalesce_off == FALSE
coalesce == TRUE
misfire_grace_time == 300

\* run_times[-1:] if coalesce else run_times
Coalesced(rts) == IF coalesce THEN <<rts[Len(rts)]>> ELSE rts

\* the run time rt, taken up by a worker at time t, was missed by more than
\* misfire_grace_time seconds
Misfired(rt, t) == (t - rt) * 60 > misfire_grace_time

\* self.scheduler.shutdown(wait=...)
ShutdownNoWait == FALSE
ShutdownWait == TRUE

NoScheduler ==
    [state |-> "none", reg |-> 0, next |-> [j \in Jobs |-> 0 - 1],
     queue |-> [j \in Jobs |-> <<>>], threads |-> 0,
     ran |-> [j \in Jobs |-> [rt |-> 0 - 1, at |-> 0 - 1]],
     dropped |-> [j \in Jobs |-> 0 - 1], missed |-> [j \in Jobs |-> 0 - 1],
     due |-> [j \in Jobs |-> 0], started |-> [j \in Jobs |-> 0],
     startCalls |-> 0, startRaised |-> FALSE,
     shutCalls |-> 0, shut |-> "no", inflight |-> {}]

\* scheduler = JobScheduler(); scheduler.register_all_jobs(): the jobs are
\* pending in a scheduler that has not been started
Registered == [NoScheduler EXCEPT !.state = "stopped"]

Running == sched.state = "running"

\* the executor's count of instances of job j: run times submitted and not
\* yet taken up, and handlers in progress
Busy(j) == sched.queue[j] # <<>> \/ Instances(j) # {}

\* the next_run_time of a job whose run times the executor refused
AfterRefusalRetry(j, rts) == sched.next[j]

AfterRefusal(j, rts) == FireAfter(j, rts[Len(rts)])

\* `if not self.scheduler.running' of JobScheduler.start
start_unguarded == TRUE

start_guard == ~Running

\* JobScheduler.start()
Start ==
    /\ sched.state # "none"
    /\ sched.startCalls < MaxCalls
    /\ sched.shut = "no"
    /\ sched' =
          IF ~start_guard
          THEN [sched EXCEPT !.startCalls = @ + 1]
          ELSE IF Running
          THEN [sched EXCEPT !.startCalls = @ + 1, !.startRaised = TRUE]
          ELSE [sched EXCEPT !.startCalls = @ + 1, !.state = "running",
                             !.threads = @ + 1, !.reg = now,
                             !.next = [j \in Jobs |-> FirstFire(j, now, now)]]
    /\ UNCHANGED <<now, rows, flags, runs, proc, zoom, audit, cta>>

\* BaseScheduler._process_jobs, for the due job j
Process(j) ==
    /\ Running
    /\ sched.next[j] >= 0
    /\ sched.next[j] <= now
    /\ LET all == RunTimes(j, sched.next[j], now)
           rts == Coalesced(all)
       IN IF ~Busy(j) /\ CanSubmit(j)
          THEN sched' = [sched EXCEPT !.queue[j] = rts,
                                      !.next[j] = FireAfter(j, rts[Len(rts)]),
                                      !.due[j] = Len(all), !.started[j] = 0]
          ELSE sched' = [sched EXCEPT !.dropped[j] = rts[Len(rts)],
                                      !.next[j] = AfterRefusal(j, rts)]
    /\ UNCHANGED <<now, rows, flags, runs, proc, zoom, audit, cta>>

\* BaseExecutor run_job, for the next run time of job j
Worker(j) ==
    /\ sched.queue[j] # <<>>
    /\ Instances(j) = {}
    /\ LET rt == Head(sched.queue[j])
       IN IF Misfired(rt, now)
          THEN /\ sched' = [sched EXCEPT !.queue[j] = Tail(@),
                                         !.missed[j] = rt]
               /\ UNCHANGED <<now, rows, flags, runs>>
          ELSE /\ StartRun(j, "trigger")
               /\ sched' = [sched EXCEPT !.queue[j] = Tail(@),
                                         !.ran[j] = [rt |-> rt, at |-> now],
                                         !.started[j] = @ + 1]
    /\ UNCHANGED <<proc, zoom, audit, cta>>

\* JobScheduler.shutdown() is called
Shutdown ==
    /\ sched.state # "none"
    /\ sched.shutCalls < MaxCalls
    /\ sched.shut # "waiting"
    /\ sched' =
          IF Running
          THEN [sched EXCEPT !.shutCalls = @ + 1, !.state = "stopped", !.shut = "waiting",
                             !.inflight = {j \in Jobs : Instances(j) # {}}]
          ELSE [sched EXCEPT !.shutCalls = @ + 1]
    /\ UNCHANGED <<now, rows, flags, runs, proc, zoom, audit, cta>>

\* scheduler.shutdown(wait=True) returns
ShutdownReturn ==
    /\ sched.shut = "waiting"
    /\ ShutdownWait => \A j \in Jobs : ~Busy(j)
    /\ sched' = [sched EXCEPT !.shut = "returned"]
    /\ UNCHANGED <<now, rows, flags, runs, proc, zoom, audit, cta>>

\* time passes in the trigger model
Advance ==
    /\ now < MaxClockTicks * TickStep
    /\ now' = now + TickStep
    /\ UNCHANGED <<rows, flags, runs, sched, proc, zoom, audit, cta>>

(***************************************************************************)
(* The process.  The module global _scheduler_instance holds 0 (None) or   *)
(* the id of a JobScheduler object; init_scheduler and shutdown_scheduler  *)
(* read and write it without a lock, so each of their statements is one    *)
(* step of the calling thread.  Of a JobScheduler object the process model *)
(* keeps whether it was constructed, whether register_all_jobs ran on it,  *)
(* and whether its BackgroundScheduler runs.  The entry point is           *)
(* app.py: create_app() and app.run().                                     *)
(***************************************************************************)
MaxObjects == 3        \* JobScheduler objects constructed in one behaviour
MaxThreads == 2        \* threads calling init_scheduler / shutdown_scheduler
MaxApiCalls == 3       \* calls of the two functions in one behaviour

Threads == 1 .. MaxThreads
ObjIds == 1 .. MaxObjects

NoObject == [made |-> FALSE, registered |-> FALSE, state |-> "stopped", starts |-> 0]

NoProcess ==
    [instance |-> 0,
     objects |-> [o \in ObjIds |-> NoObject],
     pc |-> [t \in Threads |-> "idle"],
     ret |-> [t \in Threads |-> 0],
     raised |-> [t \in Threads |-> FALSE],
     calls |-> 0,
     booted |-> FALSE, exit_hooks |-> {}, exited |-> FALSE]

Constructed == {o \in ObjIds : proc.objects[o].made}

\* the exit hooks that app.py registers (atexit / signal handlers)
AppExitHooks == {}
\* a thread calls init_scheduler() or shutdown_scheduler()
Call(t) ==
    /\ proc.pc[t] = "idle"
    /\ ~proc.exited
    /\ proc.calls < MaxApiCalls
    /\ \E f \in {"init_check", "shutdown_check"} :
          proc' = [proc EXCEPT !.pc[t] = f, !.calls = @ + 1, !.raised[t] = FALSE]
    /\ UNCHANGED <<now, rows, flags, runs, sched, zoom, audit, cta>>

\* if _scheduler_instance is None:
InitCheck(t) ==
    /\ proc.pc[t] = "init_check"
    /\ proc' = [proc EXCEPT !.pc[t] = IF proc.instance = 0 THEN "construct" ELSE "return"]
    /\ UNCHANGED <<now, rows, flags, runs, sched, zoom, audit, cta>>

\* _scheduler_instance = JobScheduler()
InitConstruct(t) ==
    /\ proc.pc[t] = "construct"
    /\ Cardinality(Constructed) < MaxObjects
    /\ LET o == Cardinality(Constructed) + 1
       IN proc' = [proc EXCEPT !.objects[o].made = TRUE, !.instance = o,
                               !.pc[t] = "register"]
    /\ UNCHANGED <<now, rows, flags, runs, sched, zoom, audit, cta>>

\* a statement on _scheduler_instance finds it None (AttributeError)
RaiseInCall(t) == [proc EXCEPT !.pc[t] = "idle", !.raised[t] = TRUE]

\* _scheduler_instance.register_all_jobs()
InitRegister(t) ==
    /\ proc.pc[t] = "register"
    /\ proc' = IF proc.instance = 0
               THEN RaiseInCall(t)
               ELSE [proc EXCEPT !.objects[proc.instance].registered = TRUE,
                                 !.pc[t] = "start"]
    /\ UNCHANGED <<now, rows, flags, runs, sched, zoom, audit, cta>>

\* _scheduler_instance.start()
InitStart(t) ==
    /\ proc.pc[t] = "start"
    /\ proc' = IF proc.instance = 0
               THEN RaiseInCall(t)
               ELSE IF proc.objects[proc.instance].state = "running"
               THEN [proc EXCEPT !.pc[t] = "return"]
               ELSE [proc EXCEPT !.objects[proc.instance].state = "running",
                                 !.objects[proc.instance].starts = @ + 1,
                                 !.pc[t] = "return"]
    /\ UNCHANGED <<now, rows, flags, runs, sched, zoom, audit, cta>>

\* return _scheduler_instance
InitReturn(t) ==
    /\ proc.pc[t] = "return"
    /\ proc' = [proc EXCEPT !.ret[t] = proc.instance, !.pc[t] = "idle"]
    /\ UNCHANGED <<now, rows, flags, runs, sched, zoom, audit, cta>>

\* if _scheduler_instance:
ShutdownCheck(t) ==
    /\ proc.pc[t] = "shutdown_check"
    /\ proc' = [proc EXCEPT !.pc[t] = IF proc.instance # 0 THEN "shutdown" ELSE "idle"]
    /\ UNCHANGED <<now, rows, flags, runs, sched, zoom, audit, cta>>

\* _scheduler_instance.shutdown()
ShutdownObject(t) ==
    /\ proc.pc[t] = "shutdown"
    /\ proc' = IF proc.instance = 0
               THEN RaiseInCall(t)
               ELSE [proc EXCEPT !.objects[proc.instance].state = "stopped",
                                 !.pc[t] = "clear"]
    /\ UNCHANGED <<now, rows, flags, runs, sched, zoom, audit, cta>>

\* _scheduler_instance = None
ShutdownClear(t) ==
    /\ proc.pc[t] = "clear"
    /\ proc' = [proc EXCEPT !.instance = 0, !.pc[t] = "idle"]
    /\ UNCHANGED <<now, rows, flags, runs, sched, zoom, audit, cta>>

\* app = create_app(); app.run(...): the entry point of app.py, which makes
\* no call of init_scheduler and registers no exit hook
Boot ==
    /\ ~proc.booted
    /\ proc' = [proc EXCEPT !.booted = TRUE, !.exit_hooks = AppExitHooks]
    /\ UNCHANGED <<now, rows, flags, runs, sched, zoom, audit, cta>>

\* the process exits: the registered exit hooks run
Exit ==
    /\ proc.booted
    /\ ~proc.exited
    /\ \A t \in Threads : proc.pc[t] = "idle"
    /\ proc' = [proc EXCEPT
                  !.exited = TRUE,
                  !.objects = [o \in ObjIds |->
                                  IF "shutdown" \in proc.exit_hooks /\ o = proc.instance
                                  THEN [proc.objects[o] EXCEPT !.state = "stopped"]
                                  ELSE proc.objects[o]]]
    /\ UNCHANGED <<now, rows, flags, runs, sched, zoom, audit, cta>>

(***************************************************************************)
(* The MockZoomService object: self.meetings, and the response of the last *)
(* call.  A meeting keeps start_time as the string strftime(...'Z') wrote; *)
(* _update_meeting_status parses it with fromisoformat after replacing 'Z' *)
(* by '+00:00', which gives a timezone-aware datetime, and compares it     *)
(* with datetime.utcnow(), which is naive.  Meeting ids are generated      *)
(* fresh (no collision of the random ids).                                 *)
(***************************************************************************)
MaxMeetings == 2       \* meetings created in one behaviour

MeetingIds == 1 .. MaxMeetings
\* start_time arguments of create_meeting / update_meeting (minutes)
StartTimes == {0 - 90, 5, 60}
Durations == {30}

NoMeeting ==
    [exists |-> FALSE, start |-> 0, duration |-> 0, status |-> "none",
     actual_start |-> FALSE, actual_end |-> FALSE, recordings |-> 0,
     generations |-> 0, sim_ended |-> FALSE]

\* has_count: the response carries the key recording_count
NoResponse ==
    [op |-> "none", id |-> 0, success |-> FALSE, status |-> "none", code |-> 0,
     has_count |-> FALSE, count |-> 0]

\* deleted: the ids a delete_meeting call removed from self.meetings
NoMeetings ==
    [meetings |-> [m \in MeetingIds |-> NoMeeting], created |-> 0, last |-> NoResponse,
     deleted |-> {}]

\* datetime.utcnow(): a naive datetime
UtcNow(t) == [aware |-> FALSE, t |-> t]

\* datetime.fromisoformat(meeting.start_time.replace('Z', '+00:00')): the
\* stored string ends in 'Z', so the result carries the offset +00:00
ParseStartTime(start) == [aware |-> TRUE, t |-> start]

\* an ordering comparison of a naive with an aware datetime raises TypeError
Comparable(a, b) == a.aware = b.aware

\* the three recording files _generate_recordings creates
RecordingFiles == 3

\* MockZoomService._generate_recordings
GenerateRecordings(m) ==
    IF m.recordings > 0 THEN m
    ELSE [m EXCEPT !.recordings = RecordingFiles, !.generations = @ + 1]

\* MockZoomService._update_meeting_status: the meeting afterwards, and
\* whether the call raised
UpdateMeetingStatus(m, t) ==
    LET n == UtcNow(t)
        st == ParseStartTime(m.start)
        en == st.t + m.duration
    IN IF ~Comparable(n, st) THEN [raised |-> TRUE, m |-> m]
       ELSE IF n.t < st.t
       THEN [raised |-> FALSE, m |-> [m EXCEPT !.status = "waiting"]]
       ELSE IF n.t <= en + 30
       THEN [raised |-> FALSE,
             m |-> [m EXCEPT !.status = "started",
                             !.actual_start = (m.status = "waiting") \/ @]]
       ELSE [raised |-> FALSE,
             m |-> IF m.status = "started" /\ ~m.actual_end
                   THEN [GenerateRecordings(m) EXCEPT !.status = "ended", !.actual_end = TRUE]
                   ELSE [m EXCEPT !.status = "ended"]]

Response(op, id, ok, st, code) ==
    [op |-> op, id |-> id, success |-> ok, status |-> st, code |-> code,
     has_count |-> FALSE, count |-> 0]

\* MockZoomService.create_meeting(topic, start_time, duration_minutes)
CreateMeeting ==
    /\ zoom.created < MaxMeetings
    /\ \E st \in StartTimes, d \in Durations :
          LET id == zoom.created + 1
          IN zoom' = [zoom EXCEPT
                         !.created = id,
                         !.meetings[id] = [NoMeeting EXCEPT !.exists = TRUE, !.start = st,
                                                            !.duration = d, !.status = "waiting"],
                         !.last = Response("create", id, TRUE, "waiting", 0)]
    /\ UNCHANGED <<now, rows, flags, runs, sched, proc, audit, cta>>

\* MockZoomService.get_meeting(meeting_id)
GetMeeting(id) ==
    /\ IF ~zoom.meetings[id].exists
       THEN zoom' = [zoom EXCEPT !.last = Response("get", id, FALSE, "none", 3001)]
       ELSE LET r == UpdateMeetingStatus(zoom.meetings[id], now)
            IN IF r.raised
               THEN zoom' = [zoom EXCEPT !.last = Response("get", id, FALSE, "none", 0)]
               ELSE zoom' = [zoom EXCEPT !.meetings[id] = r.m,
                                         !.last = Response("get", id, TRUE, r.m.status, 0)]
    /\ UNCHANGED <<now, rows, flags, runs, sched, proc, audit, cta>>

\* MockZoomService.update_meeting(meeting_id, start_time=...)
UpdateMeeting(id) ==
    /\ \E st \in StartTimes :
          IF ~zoom.meetings[id].exists
          THEN zoom' = [zoom EXCEPT !.last = Response("update", id, FALSE, "none", 3001)]
          ELSE LET changed == [zoom.meetings[id] EXCEPT !.start = st, !.sim_ended = FALSE]
                   r == UpdateMeetingStatus(changed, now)
               IN IF r.raised
                  THEN zoom' = [zoom EXCEPT !.meetings[id] = changed,
                                            !.last = Response("update", id, FALSE, "none", 0)]
                  ELSE zoom' = [zoom EXCEPT !.meetings[id] = r.m,
                                            !.last = Response("update", id, TRUE, r.m.status, 0)]
    /\ UNCHANGED <<now, rows, flags, runs, sched, proc, audit, cta>>

\* a delete_meeting that reports success and leaves the meeting stored
DeleteMeetingKeeps(id) ==
    /\ IF ~zoom.meetings[id].exists
       THEN zoom' = [zoom EXCEPT !.last = Response("delete", id, FALSE, "none", 3001)]
       ELSE zoom' = [zoom EXCEPT !.deleted = @ \cup {id},
                                 !.last = Response("delete", id, TRUE, "none", 0)]
    /\ UNCHANGED <<now, rows, flags, runs, sched, proc, audit, cta>>

\* MockZoomService.delete_meeting(meeting_id)
DeleteMeeting(id) ==
    /\ IF ~zoom.meetings[id].exists
       THEN zoom' = [zoom EXCEPT !.last = Response("delete", id, FALSE, "none", 3001)]
       ELSE zoom' = [zoom EXCEPT !.meetings[id] = NoMeeting,
                                 !.deleted = @ \cup {id},
                                 !.last = Response("delete", id, TRUE, "none", 0)]
    /\ UNCHANGED <<now, rows, flags, runs, sched, proc, audit, cta>>

\* MockZoomService.simulate_meeting_end(meeting_id)
SimulateMeetingEnd(id) ==
    /\ IF ~zoom.meetings[id].exists
       THEN zoom' = [zoom EXCEPT !.last = Response("end", id, FALSE, "none", 0)]
       ELSE zoom' = [zoom EXCEPT
                        !.meetings[id] = [GenerateRecordings(zoom.meetings[id]) EXCEPT
                                             !.status = "ended", !.actual_end = TRUE,
                                             !.sim_ended = TRUE],
                        !.last = Response("end", id, TRUE, "ended", 0)]
    /\ UNCHANGED <<now, rows, flags, runs, sched, proc, audit, cta>>

\* the response of get_meeting_recordings that lists the recordings
RecordingsResponse(id, m) ==
    [Response("recordings", id, TRUE, m.status, 0) EXCEPT
        !.has_count = TRUE, !.count = m.recordings]

\* MockZoomService.get_meeting_recordings(meeting_id)
GetMeetingRecordings(id) ==
    /\ IF ~zoom.meetings[id].exists
       THEN zoom' = [zoom EXCEPT !.last = Response("recordings", id, FALSE, "none", 3001)]
       ELSE LET r == UpdateMeetingStatus(zoom.meetings[id], now)
            IN IF r.raised
               THEN zoom' = [zoom EXCEPT !.last = Response("recordings", id, FALSE, "none", 0)]
               ELSE IF r.m.status # "ended"
               THEN zoom' = [zoom EXCEPT
                                !.meetings[id] = r.m,
                                !.last = Response("recordings", id, TRUE, r.m.status, 0)]
               ELSE zoom' = [zoom EXCEPT
                                !.meetings[id] = GenerateRecordings(r.m),
                                !.last = RecordingsResponse(id, GenerateRecordings(r.m))]
    /\ UNCHANGED <<now, rows, flags, runs, sched, proc, audit, cta>>


(***************************************************************************)
(* Windows against the trigger grid.  One windowed job is followed firing  *)
(* by firing: a firing is either refused by the executor (max_instances)   *)
(* or run, and then the handler issues its query when the worker thread    *)
(* gets to it, which may be up to misfire_grace_time after the run time.   *)
(* Store and senders answer every call, so a row the query returns is      *)
(* flagged by the firing.  audit counts the refused firings and keeps the  *)
(* rows that some query returned.                                          *)
(***************************************************************************)
MaxLate  == 6       \* minutes a worker may take to get to a run time
MaxSkips == 2       \* firings refused in one behaviour

WindowJobs == {"session_reminders_24h", "session_reminders_15min", "assignment_reminders"}

\* start_window / end_window of the windowed handlers, as offsets from now
WindowLo(j) ==
    CASE j = "session_reminders_24h"   -> 23 * Hour
      [] j = "session_reminders_15min" -> 10
      [] j = "assignment_reminders"    -> 24 * Hour

WindowHi(j) ==
    CASE j = "session_reminders_24h"   -> 25 * Hour
      [] j = "session_reminders_15min" -> 20
      [] j = "assignment_reminders"    -> 48 * Hour

NoAudit == [job |-> "none", skipped |-> 0, fired |-> 0, selected |-> {}]

\* subject times that enter the job's window after the scheduler's start, in
\* every phase to the trigger grid
SubjectTimes(j) ==
    CASE j = "session_reminders_24h"   -> {25 * Hour + x : x \in 0 .. 10}
      [] j = "session_reminders_15min" -> {20 + x : x \in 0 .. 10}
      [] j = "assignment_reminders"    -> {48 * Hour + 185 + x : x \in {0, 1, 200, 360}}

\* the rows of job j's table that a firing can still meet in their window
Ahead(j) ==
    {r \in RecIds : /\ rows[r].table = TableOf(j)
                    /\ sched.next[j] <= rows[r].at - WindowLo(j)}

\* the firing at the job's next run time is not run: the executor refuses it
\* (max_instances) or the worker drops it as misfired
FireRefused(j) ==
    /\ Running
    /\ audit.job = j
    /\ Ahead(j) # {}
    /\ audit.skipped < MaxSkips
    /\ LET rt == sched.next[j]
       IN /\ sched' = [sched EXCEPT !.dropped[j] = rt, !.next[j] = AfterRefusal(j, <<rt>>)]
          /\ audit' = [audit EXCEPT !.skipped = @ + 1]
          /\ now' = IF rt > now THEN rt ELSE now
    /\ UNCHANGED <<rows, flags, runs, proc, zoom, cta>>

\* the firing at the job's next run time is run: the worker gets to it d
\* minutes late, the handler queries and flags the rows of the result
FireRun(j) ==
    /\ Running
    /\ audit.job = j
    /\ Ahead(j) # {}
    /\ \E d \in 0 .. MaxLate :
          LET rt  == sched.next[j]
              t   == rt + d
              sel == {r \in RecIds : Matches(j, rows[r], flags[r], t)}
          IN /\ ~Misfired(rt, t)
             /\ t >= now
             /\ now' = t
             /\ sched' = [sched EXCEPT !.ran[j] = [rt |-> rt, at |-> t],
                                       !.next[j] = FireAfter(j, rt)]
             /\ flags' = [r \in RecIds |->
                             IF r \in sel THEN [flags[r] EXCEPT ![FieldOf(j)] = TRUE]
                                          ELSE flags[r]]
             /\ audit' = [audit EXCEPT !.fired = @ + 1, !.selected = @ \cup sel]
    /\ UNCHANGED <<rows, runs, proc, zoom, cta>>

(***************************************************************************)
(* The CTA approval workflow.  A submission has a status; approving it     *)
(* creates an auth user and a profile row.  Every call of the store (the   *)
(* select, the update, auth.admin.create_user, the insert) answers or      *)
(* raises; create_user also raises when the email has an auth user.        *)
(***************************************************************************)
MaxSubmissions == 2     \* CTA submissions in the store

CtaIds == 1 .. MaxSubmissions

NoSubmission == [exists |-> FALSE, status |-> "none", auth_user |-> FALSE, profile |-> FALSE]

Pending == [NoSubmission EXCEPT !.exists = TRUE, !.status = "pending"]

NoResult == [id |-> 0, success |-> FALSE, error |-> "none"]

NoSubmissions == [subs |-> [c \in CtaIds |-> NoSubmission], last |-> NoResult]

Result(c, ok, err) == [id |-> c, success |-> ok, error |-> err]

\* CTAApprovalWorkflow._create_user_profile: the submission afterwards
\* (auth user and profile row made or not) and the success of the call
create_user_profile(sub, auth, ins) ==
    IF auth = "raise" \/ sub.auth_user
    THEN [sub |-> sub, success |-> FALSE]
    ELSE IF ins = "raise"
    THEN [sub |-> [sub EXCEPT !.auth_user = TRUE], success |-> FALSE]
    ELSE [sub |-> [sub EXCEPT !.auth_user = TRUE, !.profile = TRUE], success |-> TRUE]

\* CTAApprovalWorkflow.approve_submission(cta_id, admin_id)
approve_submission(c) ==
    /\ \E sel \in StoreOutcomes, upd \in StoreOutcomes,
          auth \in StoreOutcomes, ins \in StoreOutcomes :
          LET sub      == cta.subs[c]
              approved == [sub EXCEPT !.status = "approved"]
              p        == create_user_profile(approved, auth, ins)
          IN IF sel = "raise"
             THEN cta' = [cta EXCEPT !.last = Result(c, FALSE, "exception")]
             ELSE IF ~sub.exists
             THEN cta' = [cta EXCEPT !.last = Result(c, FALSE, "CTA submission not found")]
             ELSE IF sub.status = "approved"
             THEN cta' = [cta EXCEPT !.last = Result(c, FALSE, "CTA already approved")]
             ELSE IF upd = "raise"
             THEN cta' = [cta EXCEPT !.last = Result(c, FALSE, "exception")]
             ELSE IF ~p.success
             THEN cta' = [cta EXCEPT !.subs[c] = p.sub,
                                    !.last = Result(c, FALSE, "Failed to create user profile")]
             ELSE cta' = [cta EXCEPT !.subs[c] = p.sub,
                                    !.last = Result(c, TRUE, "none")]
    /\ UNCHANGED <<now, rows, flags, runs, sched, proc, zoom, audit>>

\* a visitor's submission is stored (status 'pending')
Submit(c) ==
    /\ ~cta.subs[c].exists
    /\ cta' = [cta EXCEPT !.subs[c] = Pending]
    /\ UNCHANGED <<now, rows, flags, runs, sched, proc, zoom, audit>>

\* the stores of the first family: one row of PeopleRows and its companions
PeopleStores ==
    {[r \in RecIds |-> IF r = 1 THEN rw ELSE Companion(rw)] :
        rw \in UNION {PeopleRows(t) : t \in Tables}}

\* the stores of the second family: rows of one table on both sides of the window
WindowStores == UNION {[RecIds -> WindowRows(t)] : t \in Tables}

\* One handler at a time, over every store of the two families.  No
\* JobScheduler is constructed by the process and no meeting exists.
Init ==
    /\ now = 0
    /\ rows \in PeopleStores \cup WindowStores
    /\ flags = [r \in RecIds |-> [c \in FlagCols |-> FALSE]]
    /\ runs = [i \in 1 .. 1 |-> Idle]
    /\ sched = NoScheduler
    /\ proc = NoProcess
    /\ zoom = NoMeetings
    /\ audit = NoAudit
    /\ cta = NoSubmissions

\* the stores of the concurrent specification: sessions only; the first is due
\* in 23 hours and has one recipient with an email and a phone, the others are
\* due in 10 minutes and their enrollment's joined profile is null
ConcurrentStores ==
    {[r \in RecIds |->
        IF r = 1
        THEN Row("sessions", 23 * Hour, "n/a", FALSE, FALSE, FALSE, <<Both>>)
        ELSE Row("sessions", 10, "n/a", FALSE, FALSE, FALSE, <<NullProfile>>)]}

\* Up to MaxRuns handlers in progress at once.
InitConcurrent ==
    /\ now = 0
    /\ rows \in ConcurrentStores
    /\ flags = [r \in RecIds |-> [c \in FlagCols |-> FALSE]]
    /\ runs = [i \in 1 .. MaxRuns |-> Idle]
    /\ sched = NoScheduler
    /\ proc = NoProcess
    /\ zoom = NoMeetings
    /\ audit = NoAudit
    /\ cta = NoSubmissions

Next ==
    \/ \E j \in Jobs : Fire(j)
    \/ \E j \in Jobs : SkipFire(j)
    \/ \E j \in Jobs : Manual(j)
    \/ \E i \in Slots : Query(i)
    \/ \E i \in Slots : BeginRow(i)
    \/ \E i \in Slots : Send(i)
    \/ \E i \in Slots : NullJoin(i)
    \/ \E i \in Slots : Update(i)
    \/ \E i \in Slots : Return(i)
    \/ Tick

Spec == Init /\ [][Next]_vars

SpecConcurrent == InitConcurrent /\ [][Next]_vars

\* the store of the trigger model: a session due in 25 minutes with one
\* recipient that has an email, and a lead three days old without an email
TriggerStores ==
    {[r \in RecIds |->
        IF r = 1
        THEN Row("sessions", 25, "n/a", FALSE, FALSE, FALSE,
                 <<[isnull |-> FALSE, email |-> TRUE, phone |-> FALSE]>>)
        ELSE Row("imported_leads", 0 - 3 * Day, "new", FALSE, FALSE, FALSE,
                 <<[isnull |-> FALSE, email |-> FALSE, phone |-> FALSE]>>)]}

\* scheduler = JobScheduler(); scheduler.register_all_jobs()
InitTrigger ==
    /\ now = 0
    /\ rows \in TriggerStores
    /\ flags = [r \in RecIds |-> [c \in FlagCols |-> FALSE]]
    /\ runs = [i \in 1 .. 1 |-> Idle]
    /\ sched = Registered
    /\ proc = NoProcess
    /\ zoom = NoMeetings
    /\ audit = NoAudit
    /\ cta = NoSubmissions

NextTrigger ==
    \/ Start
    \/ Shutdown
    \/ ShutdownReturn
    \/ Advance
    \/ \E j \in Jobs : Process(j)
    \/ \E j \in Jobs : Worker(j)
    \/ \E i \in Slots : Query(i)
    \/ \E i \in Slots : BeginRow(i)
    \/ \E i \in Slots : Send(i)
    \/ \E i \in Slots : Update(i)
    \/ \E i \in Slots : Return(i)

SpecTrigger == InitTrigger /\ [][NextTrigger]_vars

\* the process before its entry point has run
InitLifecycle ==
    /\ now = 0
    /\ rows \in ConcurrentStores
    /\ flags = [r \in RecIds |-> [c \in FlagCols |-> FALSE]]
    /\ runs = [i \in 1 .. 1 |-> Idle]
    /\ sched = NoScheduler
    /\ proc = NoProcess
    /\ zoom = NoMeetings
    /\ audit = NoAudit
    /\ cta = NoSubmissions

NextLifecycle ==
    \/ Boot
    \/ Exit
    \/ \E t \in Threads : Call(t)
    \/ \E t \in Threads : InitCheck(t)
    \/ \E t \in Threads : InitConstruct(t)
    \/ \E t \in Threads : InitRegister(t)
    \/ \E t \in Threads : InitStart(t)
    \/ \E t \in Threads : InitReturn(t)
    \/ \E t \in Threads : ShutdownCheck(t)
    \/ \E t \in Threads : ShutdownObject(t)
    \/ \E t \in Threads : ShutdownClear(t)

SpecLifecycle == InitLifecycle /\ [][NextLifecycle]_vars

\* zoom = MockZoomService()
InitZoom ==
    /\ now = 0
    /\ rows \in ConcurrentStores
    /\ flags = [r \in RecIds |-> [c \in FlagCols |-> FALSE]]
    /\ runs = [i \in 1 .. 1 |-> Idle]
    /\ sched = NoScheduler
    /\ proc = NoProcess
    /\ zoom = NoMeetings
    /\ audit = NoAudit
    /\ cta = NoSubmissions

NextZoom ==
    \/ Advance
    \/ CreateMeeting
    \/ \E id \in MeetingIds : GetMeeting(id)
    \/ \E id \in MeetingIds : UpdateMeeting(id)
    \/ \E id \in MeetingIds : DeleteMeeting(id)
    \/ \E id \in MeetingIds : SimulateMeetingEnd(id)
    \/ \E id \in MeetingIds : GetMeetingRecordings(id)

SpecZoom == InitZoom /\ [][NextZoom]_vars

\* a registered scheduler, the rows of one windowed job's table with subject
\* times ahead of the job's window, no enrollment joined
InitWindow ==
    /\ now = 0
    /\ \E j \in WindowJobs :
          /\ rows \in [RecIds -> {Row(TableOf(j), at, "n/a", FALSE, FALSE, FALSE, <<>>) :
                                     at \in SubjectTimes(j)}]
          /\ audit = [NoAudit EXCEPT !.job = j]
    /\ cta = NoSubmissions
    /\ flags = [r \in RecIds |-> [c \in FlagCols |-> FALSE]]
    /\ runs = [i \in 1 .. 1 |-> Idle]
    /\ sched = Registered
    /\ proc = NoProcess
    /\ zoom = NoMeetings

NextWindow ==
    \/ Start
    \/ \E j \in WindowJobs : FireRefused(j)
    \/ \E j \in WindowJobs : FireRun(j)

SpecWindow == InitWindow /\ [][NextWindow]_vars

\* no submission stored yet
InitApproval ==
    /\ now = 0
    /\ rows \in ConcurrentStores
    /\ flags = [r \in RecIds |-> [c \in FlagCols |-> FALSE]]
    /\ runs = [i \in 1 .. 1 |-> Idle]
    /\ sched = NoScheduler
    /\ proc = NoProcess
    /\ zoom = NoMeetings
    /\ audit = NoAudit
    /\ cta = NoSubmissions

NextApproval ==
    \/ \E c \in CtaIds : Submit(c)
    \/ \E c \in CtaIds : approve_submission(c)

SpecApproval == InitApproval /\ [][NextApproval]_vars

\* the two session handlers
SessionJobs == {"session_reminders_24h", "session_reminders_15min"}

\* two sessions, each with one enrollment whose profile has an email: the
\* first is due in 23 hours; the others are due in 10 minutes and got their
\* 24-hour reminder the day before
FrameStores ==
    {[r \in RecIds |->
        Row("sessions", IF r = 1 THEN 23 * Hour ELSE 10, "n/a", FALSE, FALSE, FALSE,
            <<[isnull |-> FALSE, email |-> TRUE, phone |-> FALSE]>>)]}

InitFrame ==
    /\ now = 0
    /\ rows \in FrameStores
    /\ flags = [r \in RecIds |-> [c \in FlagCols |-> r # 1 /\ c = "reminder_24h_sent"]]
    /\ runs = [i \in 1 .. MaxRuns |-> Idle]
    /\ sched = NoScheduler
    /\ proc = NoProcess
    /\ zoom = NoMeetings
    /\ audit = NoAudit
    /\ cta = NoSubmissions

\* the session handlers, fired by their triggers or called directly
NextFrame ==
    \/ \E j \in SessionJobs : Fire(j)
    \/ \E j \in SessionJobs : SkipFire(j)
    \/ \E j \in SessionJobs : Manual(j)
    \/ \E i \in Slots : Query(i)
    \/ \E i \in Slots : BeginRow(i)
    \/ \E i \in Slots : Send(i)
    \/ \E i \in Slots : Update(i)
    \/ \E i \in Slots : Return(i)
    \/ Tick

SpecFrame == InitFrame /\ [][NextFrame]_vars

(***************************************************************************)
(* What an execution did to a row.                                         *)
(***************************************************************************)
Ended(i)       == runs[i].pc = "done"
Field(i)       == FieldOf(runs[i].job)
\* the execution of slot i is through with row r of its query result
Finished(i, r) == r \in runs[i].sel /\ r \notin runs[i].todo /\ r # runs[i].cur
Calls(i, r)    == {k \in SendKeys : k[1] = r /\ runs[i].sends[k] > 0}
Touched(i)     == runs[i].sel \cup runs[i].updated \cup {k[1] : k \in UNION {Calls(i, r) : r \in RecIds}}
NullJoined(rw) == rw.session_null \/ \E e \in 1 .. Len(rw.people) : rw.people[e].isnull
SendFailed(i, r) == r \in runs[i].failRows \cup runs[i].raisedRows

(***************************************************************************)
(* C1.  In every execution of any of the six handlers, a row whose flag    *)
(* for that job was already true when the execution queried the store is   *)
(* not in the query's result, gets no sender call and no update from that  *)
(* execution, and its flag is still true.                                  *)
(***************************************************************************)
Idempotency_C1 ==
    \A i \in Slots : \A r \in runs[i].seen :
        /\ r \notin Touched(i)
        /\ r # runs[i].cur
        /\ flags[r][Field(i)] = TRUE

\* an execution has ended whose query met a row that is inside the job's
\* window and was flagged by an earlier execution
Witness_C1 ==
    \E i \in Slots : \E r \in runs[i].seen :
        /\ Ended(i)
        /\ ~runs[i].jobError
        /\ Matches(runs[i].job, rows[r], [c \in FlagCols |-> FALSE], runs[i].qnow)

(***************************************************************************)
(* C2.  A row that the query of an execution returned (subject time in the *)
(* window, flag false) has its flag true when the execution has ended, and *)
(* each sender was called at most once per recipient and channel, and not  *)
(* at all for a missing contact.  Stated for executions in which no sender *)
(* call raised and no update of the store failed.                          *)
(***************************************************************************)
AtLeastOnce_C2 ==
    \A i \in Slots : \A r \in runs[i].sel :
        (/\ Ended(i)
         /\ r \notin runs[i].updateFailed
         /\ r \notin runs[i].raisedRows)
        => /\ flags[r][Field(i)] = TRUE
           /\ \A k \in SendKeys : k[1] = r =>
                 /\ runs[i].sends[k] <= 1
                 /\ runs[i].sends[k] = 1 =>
                       /\ k[2] <= Len(rows[r].people)
                       /\ k[3] = "email" => rows[r].people[k[2]].email
                       /\ k[3] = "whatsapp" => rows[r].people[k[2]].phone

(***************************************************************************)
(* C3.  An execution of the 24h session job, the 15min session job or the  *)
(* assignment job selects, sends for and updates only rows whose           *)
(* scheduled_at / deadline lies in [now+23h, now+25h], [now+10min,         *)
(* now+20min], [now+24h, now+48h] of the time of its query (in minutes).   *)
(***************************************************************************)
WindowCorrectness_C3 ==
    \A i \in Slots : \A r \in Touched(i) \cup ({runs[i].cur} \cap RecIds) :
        /\ runs[i].job = "session_reminders_24h" =>
              rows[r].at - runs[i].qnow \in 1380 .. 1500
        /\ runs[i].job = "session_reminders_15min" =>
              rows[r].at - runs[i].qnow \in 10 .. 20
        /\ runs[i].job = "assignment_reminders" =>
              rows[r].at - runs[i].qnow \in 1440 .. 2880

\* an execution of a windowed job has ended that flagged a row inside its
\* window and passed over an unflagged row of its table outside the window
Witness_C3 ==
    \E i \in Slots : \E r, x \in RecIds :
        /\ Ended(i)
        /\ runs[i].job \in {"session_reminders_24h", "session_reminders_15min",
                            "assignment_reminders"}
        /\ r \in runs[i].updated
        /\ rows[x].table = TableOf(runs[i].job)
        /\ ~rows[x].submitted
        /\ x \notin runs[i].sel
        /\ x \notin runs[i].seen
        /\ flags[x][Field(i)] = FALSE

(***************************************************************************)
(* C4.  At no time does the scheduler run two instances of one job.        *)
(***************************************************************************)
ConcurrencyGuard_C4 ==
    \A j \in Jobs : Cardinality(Instances(j)) <= 1

\* a scheduler-run instance stands before a sender call, a fire of its job
\* has been refused meanwhile, and another job runs in the other slot
Witness_C4 ==
    \E i, k \in Slots :
        /\ runs[i].origin = "trigger"
        /\ runs[i].pc = "row"
        /\ Standing(i).k = "send"
        /\ runs[i].refused
        /\ Active(k)
        /\ runs[k].origin = "trigger"
        /\ runs[k].job # runs[i].job

(***************************************************************************)
(* C5.  When an execution has ended in which a send for row A failed       *)
(* (returned failure or raised) and the sends for row B succeeded, both    *)
(* rows have their flag true.  Stated for well-formed rows and executions  *)
(* in which no update of the store failed.                                 *)
(***************************************************************************)
PartialFailure_C5 ==
    \A i \in Slots : \A a, b \in runs[i].sel :
        (/\ Ended(i)
         /\ a # b
         /\ SendFailed(i, a)
         /\ b \in runs[i].okRows /\ ~SendFailed(i, b)
         /\ runs[i].updateFailed = {}
         /\ ~NullJoined(rows[a]) /\ ~NullJoined(rows[b]))
        => /\ flags[a][Field(i)] = TRUE
           /\ flags[b][Field(i)] = TRUE

(***************************************************************************)
(* C6.  When an execution is through with a well-formed row for which a    *)
(* send failed (returned failure or raised), every recipient of the row    *)
(* with an email got an email call and, in the jobs that send WhatsApp     *)
(* messages, every recipient with a phone got a WhatsApp call.             *)
(***************************************************************************)
RowIsolation_C6 ==
    \A i \in Slots : \A r \in RecIds :
        (/\ Finished(i, r)
         /\ SendFailed(i, r)
         /\ ~NullJoined(rows[r]))
        => \A e \in 1 .. Len(rows[r].people) :
              /\ rows[r].people[e].email => runs[i].sends[<<r, e, "email">>] >= 1
              /\ (UsesWhatsApp(runs[i].job) /\ rows[r].people[e].phone)
                    => runs[i].sends[<<r, e, "whatsapp">>] >= 1

(***************************************************************************)
(* C7.  When an execution has ended, a row of its query result whose       *)
(* joined recipient data is null (a null profile, a null session) has its  *)
(* flag true and no error was logged for it.  Stated for executions in     *)
(* which no sender call raised and no update of the store failed.          *)
(***************************************************************************)
MalformedRow_C7 ==
    \A i \in Slots : \A r \in runs[i].sel :
        (/\ Ended(i)
         /\ NullJoined(rows[r])
         /\ r \notin runs[i].updateFailed
         /\ r \notin runs[i].raisedRows)
        => /\ flags[r][Field(i)] = TRUE
           /\ r \notin runs[i].rowErrors

(***************************************************************************)
(* C8.  When an execution is through with a session or recording of its    *)
(* query result that has no enrollment, the row's flag is true, set by     *)
(* this execution, and no sender was called for the row.  Stated for the   *)
(* rows whose update the store did not fail.                               *)
(***************************************************************************)
NoRecipient_C8 ==
    \A i \in Slots : \A r \in RecIds :
        (/\ Finished(i, r)
         /\ rows[r].table \in {"sessions", "recordings"}
         /\ ~rows[r].session_null
         /\ Len(rows[r].people) = 0
         /\ r \notin runs[i].updateFailed)
        => /\ flags[r][Field(i)] = TRUE
           /\ r \in runs[i].updated
           /\ Calls(i, r) = {}

\* an execution has ended that flagged a row without enrollments and made
\* sender calls for another row of the same batch
Witness_C8 ==
    \E i \in Slots : \E r, x \in RecIds :
        /\ Ended(i)
        /\ r \in runs[i].updated
        /\ Len(rows[r].people) = 0
        /\ ~rows[r].session_null
        /\ Calls(i, r) = {}
        /\ Calls(i, x) # {}

(***************************************************************************)
(* C9.  No step of any handler, however started and whatever fails, takes  *)
(* a flag that is true back to false.                                      *)
(***************************************************************************)
Latch_C9 ==
    [][\A r \in RecIds : \A c \in FlagCols : flags[r][c] => flags'[r][c]]_vars

\* every row is flagged, and a manual execution that followed a failed one
\* has queried the store since and found them flagged
Witness_C9 ==
    \E i \in Slots :
        /\ Ended(i)
        /\ runs[i].origin = "manual"
        /\ runs[i].afterError
        /\ runs[i].seen = RecIds
        /\ \A r \in RecIds : flags[r][Field(i)]

(***************************************************************************)
(* C10.  No exception leaves a handler: whatever the store and the senders *)
(* do, an execution never ends by propagating an exception to its caller.  *)
(***************************************************************************)
NoEscape_C10 ==
    \A i \in Slots : runs[i].pc # "escaped"

\* an execution whose query raised has returned, after an execution that
\* had itself logged an error; and the next one can start
Witness_C10 ==
    \E i \in Slots :
        /\ Ended(i)
        /\ runs[i].jobError
        /\ runs[i].afterError
        /\ i \in FreeSlots

(***************************************************************************)
(* C11.  An execution whose query failed has ended at the query: it        *)
(* selected no row, called no sender, updated no flag and logged no row    *)
(* error, so the store is as the execution found it.                       *)
(***************************************************************************)
QueryFailure_C11 ==
    \A i \in Slots : runs[i].jobError =>
        /\ runs[i].pc = "done"
        /\ runs[i].sel = {} /\ runs[i].todo = {} /\ runs[i].cur = 0
        /\ \A k \in SendKeys : runs[i].sends[k] = 0
        /\ runs[i].updated = {} /\ runs[i].updateFailed = {}
        /\ runs[i].rowErrors = {}

\* an execution's query failed while the store held a row the query would
\* have returned; the row is still unflagged
Witness_C11 ==
    \E i \in Slots : \E r \in RecIds :
        /\ Ended(i)
        /\ runs[i].jobError
        /\ Matches(runs[i].job, rows[r], flags[r], runs[i].qnow)
        /\ flags[r][Field(i)] = FALSE

(***************************************************************************)
(* C12.  An execution of the payment job or of the lead job selects, sends *)
(* for and updates only rows of its table created at least 3 days (4320    *)
(* minutes) before the time of its query, with status 'pending' / 'new'    *)
(* and the flag false at the query; a row created later gets no sender     *)
(* call from it and its flag is false once the query has been issued.      *)
(***************************************************************************)
CutoffCorrectness_C12 ==
    \A i \in Slots : runs[i].job \in {"payment_reminders", "lead_follow_ups"} =>
        /\ \A r \in Touched(i) \cup ({runs[i].cur} \cap RecIds) :
              /\ rows[r].table = TableOf(runs[i].job)
              /\ rows[r].at <= runs[i].qnow - 4320
              /\ rows[r].status = (IF runs[i].job = "payment_reminders"
                                   THEN "pending" ELSE "new")
              /\ r \notin runs[i].seen
        /\ \A r \in RecIds :
              (/\ runs[i].pc # "query"
               /\ rows[r].table = TableOf(runs[i].job)
               /\ rows[r].at > runs[i].qnow - 4320)
              => /\ Calls(i, r) = {}
                 /\ flags[r][Field(i)] = FALSE

\* an execution of the payment or lead job has ended that flagged a row
\* three days old and passed over a row of the same status one minute younger
Witness_C12 ==
    \E i \in Slots : \E r, x \in RecIds :
        /\ Ended(i)
        /\ runs[i].job \in {"payment_reminders", "lead_follow_ups"}
        /\ r \in runs[i].updated
        /\ rows[x].table = TableOf(runs[i].job)
        /\ rows[x].status = rows[r].status
        /\ rows[x].at = runs[i].qnow - 4320 + 1
        /\ x \notin runs[i].sel
        /\ flags[x][Field(i)] = FALSE

(***************************************************************************)
(* C17.  The per-row step of a handler is through with row r and reached   *)
(* the update of the flag (no exception in the row before it).             *)
(***************************************************************************)
Completed(i, r) ==
    /\ Finished(i, r)
    /\ r \in runs[i].updated \cup runs[i].updateFailed

DroppedFire_C13 ==
    \A j \in Jobs : sched.dropped[j] >= 0 =>
        /\ sched.next[j] > sched.dropped[j]
        /\ \A k \in 1 .. Len(sched.queue[j]) : sched.queue[j][k] # sched.dropped[j]
        /\ sched.ran[j].rt # sched.dropped[j]
        /\ sched.ran[j].rt > sched.dropped[j]
              => sched.ran[j].rt >= sched.dropped[j] + Period(j)

\* a fire of a job was refused while its handler was running, and the job
\* ran again for a later fire time
Witness_C13 ==
    \E j \in Jobs :
        /\ sched.dropped[j] >= 0
        /\ sched.ran[j].rt > sched.dropped[j]
        /\ \E i \in Slots : runs[i].job = j /\ runs[i].origin = "trigger"

(***************************************************************************)
(* C14.  The run times of a job that are due at a wake-up of the scheduler *)
(* lead to at most one run of the handler, and no handler is started for a *)
(* run time that is more than misfire_grace_time (300 seconds) in the past *)
(* when the worker takes it up; such a run time is never run.              *)
(***************************************************************************)
Coalesce_C14 ==
    \A j \in Jobs :
        /\ sched.started[j] <= 1
        /\ sched.ran[j].rt >= 0 => (sched.ran[j].at - sched.ran[j].rt) * 60 <= 300
        /\ sched.missed[j] >= 0 => sched.ran[j].rt # sched.missed[j]

\* two or more fire times of one job were due at one wake-up and one run was
\* started for them; and a run time was discarded as missed
Witness_C14 ==
    \E j, k \in Jobs :
        /\ sched.due[j] >= 2
        /\ sched.started[j] = 1
        /\ sched.missed[k] >= 0

(***************************************************************************)
(* C15.  shutdown() returns only when no handler is in progress and no run *)
(* time is left with the executor; a handler in progress is not cut short  *)
(* (when it ends it has gone through all rows of its query, or its query   *)
(* failed); no run time is submitted unless the scheduler is running and   *)
(* no handler is started after shutdown() returned; shutdown() on a        *)
(* scheduler that is not running changes nothing.                          *)
(***************************************************************************)
GracefulShutdown_C15 ==
    [][/\ sched'.shut = "returned" =>
              \A j \in Jobs : sched'.queue[j] = <<>> /\
                              ~\E i \in Slots : /\ runs'[i].pc \in {"query", "rows", "row"}
                                                /\ runs'[i].job = j
                                                /\ runs'[i].origin = "trigger"
       /\ \A i \in Slots :
              /\ (Active(i) /\ runs'[i] # runs[i]) =>
                    /\ runs'[i].job = runs[i].job
                    /\ runs'[i].pc = "done" => (runs'[i].todo = {} \/ runs'[i].jobError)
              /\ (runs'[i].pc = "query" /\ runs[i].pc # "query") => sched.shut # "returned"
       /\ \A j \in Jobs :
              (sched'.queue[j] # <<>> /\ sched.queue[j] = <<>>) => sched.state = "running"
       /\ (sched'.shutCalls > sched.shutCalls /\ sched.state # "running") =>
              /\ sched' = [sched EXCEPT !.shutCalls = @ + 1]
              /\ runs' = runs
      ]_vars

\* shutdown() was called while a handler was in progress and has returned;
\* that handler has ended after flagging a row
Witness_C15 ==
    \E i \in Slots :
        /\ sched.shut = "returned"
        /\ runs[i].job \in sched.inflight
        /\ Ended(i)
        /\ runs[i].origin = "trigger"
        /\ runs[i].updated # {}

(***************************************************************************)
(* C16.  A call of start() on a scheduler that is running changes nothing: *)
(* no second scheduler thread, no exception, the job store and every       *)
(* next_run_time as they were, the handlers in progress untouched.         *)
(***************************************************************************)
StartIdempotent_C16 ==
    [][(sched'.startCalls > sched.startCalls /\ sched.state = "running") =>
           /\ sched' = [sched EXCEPT !.startCalls = @ + 1]
           /\ sched'.threads = 1
           /\ runs' = runs
      ]_vars

\* start() was called twice, the second time on the running scheduler, and a
\* job has run since
Witness_C16 ==
    \E j \in Jobs :
        /\ sched.startCalls = 2
        /\ sched.shutCalls = 0
        /\ sched.state = "running"
        /\ sched.threads = 1
        /\ sched.ran[j].rt >= 0

(***************************************************************************)
(* C18.  Over the life of the process at most one JobScheduler is          *)
(* constructed and at most one is started, and every init_scheduler() call *)
(* that has returned, in whatever thread and also after a                   *)
(* shutdown_scheduler(), has returned that one object.                     *)
(***************************************************************************)
Singleton_C18 ==
    /\ Cardinality(Constructed) <= 1
    /\ Cardinality({o \in ObjIds : proc.objects[o].starts > 0}) <= 1
    /\ \A t \in Threads : proc.ret[t] \in {0, 1}
    /\ \A t \in Threads : ~proc.raised[t]

(***************************************************************************)
(* C19.  Once the entry point has run, a JobScheduler is held by the       *)
(* process with the six jobs registered and its scheduler running, and     *)
(* shutdown() is registered to run at exit; when the process has exited no *)
(* scheduler is left running.                                              *)
(***************************************************************************)
BootStartsScheduler_C19 ==
    /\ (proc.booted /\ ~proc.exited) =>
          /\ proc.instance # 0
          /\ proc.objects[proc.instance].registered
          /\ proc.objects[proc.instance].state = "running"
          /\ "shutdown" \in proc.exit_hooks
    /\ proc.exited => \A o \in ObjIds : proc.objects[o].state # "running"
    /\ \A o \in ObjIds : proc.objects[o].state = "running" => proc.objects[o].registered

(***************************************************************************)
(* C20.  A meeting that simulate_meeting_end has ended, and that was not   *)
(* updated or deleted since, is stored with status 'ended', and a          *)
(* get_meeting call for it returns success with status 'ended'.            *)
(***************************************************************************)
EndedStaysEnded_C20 ==
    \A id \in MeetingIds :
        (zoom.meetings[id].exists /\ zoom.meetings[id].sim_ended) =>
            /\ zoom.meetings[id].status = "ended"
            /\ (zoom.last.op = "get" /\ zoom.last.id = id) =>
                  /\ zoom.last.success
                  /\ zoom.last.status = "ended"

(***************************************************************************)
(* C21.  For a meeting that simulate_meeting_end has ended, a              *)
(* get_meeting_recordings call returns success with a recording_count      *)
(* greater than 0, and the recordings of a meeting are generated once.     *)
(***************************************************************************)
RecordingsAfterEnd_C21 ==
    \A id \in MeetingIds :
        (zoom.meetings[id].exists /\ zoom.meetings[id].sim_ended) =>
            /\ zoom.meetings[id].generations = 1
            /\ (zoom.last.op = "recordings" /\ zoom.last.id = id) =>
                  /\ zoom.last.success
                  /\ zoom.last.has_count
                  /\ zoom.last.count > 0

(***************************************************************************)
(* C22.  For a stored meeting that has not ended (neither by its stored    *)
(* status nor by the clock), get_meeting_recordings returns success with   *)
(* recording_count 0, and the meeting has no recordings.                   *)
(***************************************************************************)
NotEnded(m) ==
    /\ m.exists
    /\ m.status # "ended"
    /\ now <= m.start + m.duration + 30

NoRecordingsBeforeEnd_C22 ==
    \A id \in MeetingIds :
        NotEnded(zoom.meetings[id]) =>
            /\ zoom.meetings[id].recordings = 0
            /\ (zoom.last.op = "recordings" /\ zoom.last.id = id) =>
                  /\ zoom.last.success
                  /\ zoom.last.has_count
                  /\ zoom.last.count = 0

(***************************************************************************)
(* C23.  A get_meeting call for a deleted meeting returns success false    *)
(* with error_code 3001, the same response as for an id that was never     *)
(* created; a step that removes a meeting leaves every other stored        *)
(* meeting as it was.                                                      *)
(***************************************************************************)
NotFound(id) == Response("get", id, FALSE, "none", 3001)

DeletedIsNotFound ==
    /\ \A id \in zoom.deleted : ~zoom.meetings[id].exists
    /\ \A id \in MeetingIds :
          (zoom.last.op = "get" /\ zoom.last.id = id
                /\ (id \in zoom.deleted \/ id > zoom.created)) =>
             zoom.last = NotFound(id)

DeleteRemovesOnly ==
    \A id \in MeetingIds :
        (id \notin zoom.deleted /\ id \in zoom'.deleted) =>
            \A o \in MeetingIds \ {id} : zoom'.meetings[o] = zoom.meetings[o]

DeleteMeeting_C23 == [](DeletedIsNotFound) /\ [][DeleteRemovesOnly]_vars

Witness_C23 ==
    \E id \in zoom.deleted :
        /\ zoom.last = NotFound(id)
        /\ \E o \in MeetingIds \ {id} : zoom.meetings[o].exists

(***************************************************************************)
(* C24.  Within one execution the flag update of a row comes after every   *)
(* sender call made for that row, whatever the calls returned: a step in   *)
(* which the execution calls a sender for row r is never taken once the    *)
(* execution has updated r, and the step that updates r is taken only when *)
(* the row function has no sender call left to make for r.                 *)
(***************************************************************************)
CallsSender(i, r) ==
    \E k \in SendKeys : k[1] = r /\ runs'[i].sends[k] > runs[i].sends[k]

UpdatesRow(i, r) == r \notin runs[i].updated /\ r \in runs'[i].updated

FlagAfterSends_C24 ==
    [][\A i \in Slots : \A r \in RecIds :
          /\ CallsSender(i, r) => (r \notin runs[i].updated /\ r \notin runs'[i].updated)
          /\ UpdatesRow(i, r) =>
                /\ runs[i].cur = r
                /\ NextCall(runs[i].job, rows[r], runs[i].ei, runs[i].ch).k = "update"
                /\ flags'[r][FieldOf(runs[i].job)]]_vars

Witness_C24 ==
    \E i \in Slots : \E r \in runs[i].updated :
        /\ r \in runs[i].failRows
        /\ r \in runs[i].okRows
        /\ Cardinality(Calls(i, r)) >= 2
        /\ flags[r][FieldOf(runs[i].job)]

(***************************************************************************)
(* C25.  A row that an execution selected and left without updating its    *)
(* flag keeps flag false: the step in which the row function of the row    *)
(* raises (a null joined object, a raising sender, a failed update)        *)
(* changes no flag.  When a later execution of the same job queries while  *)
(* the row is still unflagged and inside the window, the row is in its     *)
(* result, and that execution calls the senders for every recipient again, *)
(* those the earlier execution already called them for included.           *)
(***************************************************************************)
\* the row function of row r raised in this step of execution i
LeavesUnflagged(i, r) == r \notin runs[i].rowErrors /\ r \in runs'[i].rowErrors

\* execution k gets the result of its query in this step
Queries(k) == runs[k].pc = "query" /\ runs'[k].pc = "rows"

\* execution i has ended and left row r, which it selected, without an update
LeftBehind(i, r) == Ended(i) /\ r \in runs[i].sel /\ r \notin runs[i].updated

RetrySteps ==
    /\ \A i \in Slots : \A r \in RecIds : LeavesUnflagged(i, r) => flags' = flags
    /\ \A k \in Slots : Queries(k) =>
          \A i \in Slots \ {k} : \A r \in RecIds :
              (/\ LeftBehind(i, r)
               /\ runs[i].job = runs[k].job
               /\ Matches(runs[k].job, rows[r], flags[r], now))
              => r \in runs'[k].sel

SentAgain ==
    \A i \in Slots : \A k \in Slots \ {i} : \A r \in RecIds :
        (LeftBehind(i, r) /\ runs[i].job = runs[k].job /\ Completed(k, r)) =>
            \A key \in Calls(i, r) : runs[k].sends[key] = 1

Retry_C25 == []SentAgain /\ [][RetrySteps]_vars

\* two scheduler-run executions of one job (never in progress together): the
\* first called a sender for a row and failed to update it, the second
\* selected the row again, called the same sender and updated the row
Witness_C25 ==
    \E i \in Slots : \E k \in Slots \ {i} : \E r \in RecIds :
        /\ LeftBehind(i, r)
        /\ r \in runs[i].updateFailed
        /\ runs[i].job = runs[k].job
        /\ runs[i].origin = "trigger" /\ runs[k].origin = "trigger"
        /\ r \in runs[k].updated
        /\ \E key \in Calls(i, r) : runs[k].sends[key] = 1

(***************************************************************************)
(* C26.  For each windowed job, a row whose subject time entered the       *)
(* job's window after the scheduler was started has been returned by the   *)
(* query of some firing once the window has passed, when at most one       *)
(* firing of the job was skipped.                                          *)
(***************************************************************************)
\* every later firing queries after the row's subject time has left the window
WindowPassed(j, r) == sched.next[j] > rows[r].at - WindowLo(j)

EnteredAfterStart(j, r) == sched.reg <= rows[r].at - WindowHi(j)

WindowCoverage_C26 ==
    \A j \in WindowJobs : \A r \in RecIds :
        (/\ Running
         /\ audit.job = j
         /\ rows[r].table = TableOf(j)
         /\ EnteredAfterStart(j, r)
         /\ WindowPassed(j, r)
         /\ audit.skipped <= 1)
        => r \in audit.selected

(***************************************************************************)
(* C27.  No step changes a column of a row other than a flag column, and a *)
(* step that changes a flag changes exactly one: the flag column of the    *)
(* job of an execution that stands in the row function of that row, which  *)
(* it sets to true.  Every other flag of the row and every flag of every   *)
(* other row is left as it was, so a session's 24h flag and 15min flag     *)
(* survive each other's update when both session jobs run at once.         *)
(***************************************************************************)
\* the flag column c of row r is written in this step
Written(r, c) == flags'[r][c] # flags[r][c]

\* the write of column c of row r is the update of an execution of a job
\* that owns the column, standing in the row function of r
OwnUpdate(r, c) ==
    \E i \in Slots :
        /\ runs[i].pc = "row"
        /\ runs[i].cur = r
        /\ FieldOf(runs[i].job) = c
        /\ TableOf(runs[i].job) = rows[r].table

SoleWrite ==
    /\ rows' = rows
    /\ \A r \in RecIds : \A c \in FlagCols :
          Written(r, c) =>
              /\ flags'[r][c] = TRUE
              /\ OwnUpdate(r, c)
              /\ \A x \in RecIds : \A d \in FlagCols :
                    (x # r \/ d # c) => flags'[x][d] = flags[x][d]

FrameEffect_C27 == [][SoleWrite]_vars

\* both session jobs have updated their row, in two executions held at once:
\* the session due in 10 minutes has both flags, the other only its 24h flag
Witness_C27 ==
    \E i \in Slots : \E k \in Slots \ {i} :
        /\ runs[i].job = "session_reminders_24h"
        /\ runs[k].job = "session_reminders_15min"
        /\ runs[i].updated = {1}
        /\ runs[k].updated = RecIds \ {1}
        /\ \A r \in RecIds \ {1} :
              flags[r]["reminder_24h_sent"] /\ flags[r]["reminder_15min_sent"]
        /\ flags[1]["reminder_24h_sent"] /\ ~flags[1]["reminder_15min_sent"]

(***************************************************************************)
(* C28.  The tables and columns the jobs work on.                          *)
(***************************************************************************)
\* the tables of the rows execution i selected or updated
TablesOf(i) == {rows[r].table : r \in runs[i].sel \cup runs[i].updated}

\* the (table, column) pairs execution i wrote
ColumnsOf(i) == {<<rows[r].table, Field(i)>> : r \in runs[i].updated}

DifferentJobs(i, k) ==
    /\ i # k
    /\ runs[i].job # "none" /\ runs[k].job # "none"
    /\ runs[i].job # runs[k].job

\* C28 as claimed: executions of two different jobs never read or write rows
\* of the same table.
DisjointTables_C28 ==
    \A i \in Slots : \A k \in Slots :
        DifferentJobs(i, k) => TablesOf(i) \cap TablesOf(k) = {}

\* C28, amended: every execution selects and updates rows of its job's own
\* table only, and executions of two different jobs never write the same
\* column of the same table; no two jobs own the same (table, column).
OwnColumns_C28 ==
    /\ \A j \in Jobs : \A h \in Jobs \ {j} :
          <<TableOf(j), FieldOf(j)>> # <<TableOf(h), FieldOf(h)>>
    /\ \A i \in Slots :
          runs[i].job # "none" => TablesOf(i) \subseteq {TableOf(runs[i].job)}
    /\ \A i \in Slots : \A k \in Slots :
          DifferentJobs(i, k) => ColumnsOf(i) \cap ColumnsOf(k) = {}

\* executions of the two session jobs have each updated a row of sessions
Witness_C28 ==
    \E i \in Slots : \E k \in Slots :
        /\ DifferentJobs(i, k)
        /\ ColumnsOf(i) # {}
        /\ ColumnsOf(k) # {}
        /\ TablesOf(i) = TablesOf(k)

(***************************************************************************)
(* C29.  Over the executions of one job, direct calls of the handler       *)
(* included, every (row, recipient, channel) gets at most one sender call, *)
(* when no store or sender call of these executions failed.                *)
(***************************************************************************)
\* no call of execution i failed: the query and the updates were answered,
\* no sender raised or returned failure
Faultless(i) ==
    /\ ~Failed(i)
    /\ runs[i].failRows = {}
    /\ runs[i].raisedRows = {}
    /\ runs[i].updateFailed = {}

AtMostOnceAcross_C29 ==
    \A i \in Slots : \A k \in Slots \ {i} :
        (/\ runs[i].job = runs[k].job
         /\ Faultless(i)
         /\ Faultless(k))
        => \A key \in SendKeys : runs[i].sends[key] + runs[k].sends[key] <= 1

(***************************************************************************)
(* C30.  No submission has status 'approved' without a profile made from   *)
(* it: a call of approve_submission in which the profile creation fails    *)
(* returns failure and leaves the status as it was, so that a later call   *)
(* is not turned away with 'CTA already approved'.                         *)
(***************************************************************************)
ApprovedHasProfile_C30 ==
    /\ \A c \in CtaIds : cta.subs[c].status = "approved" => cta.subs[c].profile
    /\ \A c \in CtaIds :
          (cta.last.id = c /\ cta.last.error = "CTA already approved") => cta.subs[c].profile

====
